---- MODULE Spec2Model ----
(***************************************************************************)
(* Veritas belief aggregation: AgentModule (veritas-agent), BeliefModule   *)
(* (veritas-belief) and SubmissionModule (veritas-submission).             *)
(*                                                                         *)
(* The state is the persistent storage of the three modules.  Every        *)
(* operation of the modules is a pure operator from the state and its      *)
(* arguments to an outcome (status, return value, new storage); an action  *)
(* applies one operation and records its outcome in `result`.              *)
(*                                                                         *)
(* Integers: u64 is modelled at a reduced width, MaxU64 standing for       *)
(* u64::MAX.  The u128 intermediates of update_aggregate hold the exact    *)
(* product and sum (a product of two u64 always fits in u128); an update   *)
(* whose exact numerator exceeds MaxNumerator lies outside the model.      *)
(***************************************************************************)
EXTENDS Integers, Sequences, FiniteSets, TLC

\* ------------------------------------------------------------------ bounds
MaxU64 == 131071
MaxNumerator == 2000000000
MaxOps == 2

\* ------------------------------------------------------- program constants
SCALE == 10000
DefaultScore == 100
MaxBonus == 100

\* ------------------------------------------------------------ input domains
Address == {"a1", "a2"}
Question == {"", "q"}
BeliefIds == {1, 2}
Values == {0, 8000, SCALE, SCALE + 1}
InitialValues == {5000, SCALE + 1}
Weights == {0, 10, MaxU64}
Stakes == {0, 1000}
Amounts == {500, MaxU64}
Deltas == {1}

\* ------------------------------------------------------------- std helpers
Min(a, b) == IF a < b THEN a ELSE b

saturating_add(a, b) == IF a + b > MaxU64 THEN MaxU64 ELSE a + b

saturating_sub(a, b) == IF a < b THEN 0 ELSE a - b

saturating_mul(a, b) ==
    IF a = 0 \/ b = 0 THEN 0
    ELSE IF a > MaxU64 \div b THEN MaxU64
    ELSE a * b

\* `x as u64`: truncation to the low word.
as_u64(x) == x % (MaxU64 + 1)

\* Option<T>: <<>> is None, <<v>> is Some(v).
None == <<>>
Some(v) == <<v>>
unwrap_or(opt, d) == IF opt = None THEN d ELSE opt[1]

\* StateMap: a function whose domain is the set of stored keys.
MapGet(m, k) == IF k \in DOMAIN m THEN Some(m[k]) ELSE None
MapSet(m, k, v) == [x \in DOMAIN m \cup {k} |-> IF x = k THEN v ELSE m[x]]
EmptyMap == [x \in {} |-> 0]

\* ------------------------------------------------------------------- state
VARIABLES agents, beliefs, next_belief_id, submission_counts, submissions,
          result, nops, overflow_checks

vars == <<agents, beliefs, next_belief_id, submission_counts, submissions,
          result, nops, overflow_checks>>

\* A plain `a + b` on u64.  What it does on overflow is fixed by the build
\* profile: with overflow checks (debug) it panics and the call is aborted
\* with nothing committed; without them (release) it wraps.  overflow_checks
\* is the profile of the running build.
add_overflows(a, b) == a + b > MaxU64
wrapping_add(a, b) == (a + b) % (MaxU64 + 1)

\* The storage of the three modules, as one value.
State == [agents |-> agents, beliefs |-> beliefs,
          next_belief_id |-> next_belief_id,
          submission_counts |-> submission_counts,
          submissions |-> submissions]

Agent(stake, score) == [stake |-> stake, score |-> score]

Belief(id, question, aggregate, total_weight) ==
    [id |-> id, question |-> question, aggregate |-> aggregate,
     total_weight |-> total_weight]

Submission(agent, belief_id, value, weight) ==
    [agent |-> agent, belief_id |-> belief_id, value |-> value,
     weight |-> weight, timestamp |-> 0]

\* Outcome of an operation: status is "Ok" or the error, ret the returned
\* value (0 for unit), st the storage after the call.
Ok(ret, st) == [status |-> "Ok", ret |-> ret, st |-> st]
Err(e, st) == [status |-> e, ret |-> 0, st |-> st]

\* ------------------------------------------------------------- AgentModule
\* Mutant: no check for an existing record.
register_agent_overwrite(st, sender, initial_stake) ==
    IF initial_stake = 0 THEN Err("InvalidStake", st)
    ELSE Ok(0, [st EXCEPT !.agents =
                    MapSet(@, sender, Agent(initial_stake, DefaultScore))])

\* Mutant: no check for a zero stake.
register_agent_no_zero_check(st, sender, initial_stake) ==
    IF MapGet(st.agents, sender) # None THEN Err("AlreadyRegistered", st)
    ELSE Ok(0, [st EXCEPT !.agents =
                    MapSet(@, sender, Agent(initial_stake, DefaultScore))])

register_agent(st, sender, initial_stake) ==
    IF MapGet(st.agents, sender) # None THEN Err("AlreadyRegistered", st)
    ELSE IF initial_stake = 0 THEN Err("InvalidStake", st)
    ELSE Ok(0, [st EXCEPT !.agents =
                    MapSet(@, sender, Agent(initial_stake, DefaultScore))])

\* Mutant: wrapping instead of saturating add.
add_stake_wrapping(st, sender, amount) ==
    IF MapGet(st.agents, sender) = None THEN Err("NotRegistered", st)
    ELSE LET agent == st.agents[sender]
             updated_agent == Agent(wrapping_add(agent.stake, amount),
                                    agent.score)
         IN Ok(0, [st EXCEPT !.agents = MapSet(@, sender, updated_agent)])

\* Mutant: a missing agent is created with the default record.
add_stake_creates(st, sender, amount) ==
    LET agent == unwrap_or(MapGet(st.agents, sender), Agent(0, DefaultScore))
        updated_agent == Agent(saturating_add(agent.stake, amount),
                               agent.score)
    IN Ok(0, [st EXCEPT !.agents = MapSet(@, sender, updated_agent)])

\* Mutant: the amount is added to every registered agent.
add_stake_all(st, sender, amount) ==
    IF MapGet(st.agents, sender) = None THEN Err("NotRegistered", st)
    ELSE Ok(0, [st EXCEPT !.agents =
                    [a \in DOMAIN @ |->
                         Agent(saturating_add(@[a].stake, amount),
                               @[a].score)]])

add_stake(st, sender, amount) ==
    IF MapGet(st.agents, sender) = None THEN Err("NotRegistered", st)
    ELSE LET agent == st.agents[sender]
             updated_agent == Agent(saturating_add(agent.stake, amount),
                                    agent.score)
         IN Ok(0, [st EXCEPT !.agents = MapSet(@, sender, updated_agent)])

\* Mutant: a record whose stake reaches 0 is removed.
withdraw_stake_deletes(st, sender, amount) ==
    IF MapGet(st.agents, sender) = None THEN Err("NotRegistered", st)
    ELSE LET agent == st.agents[sender]
             updated_agent == Agent(saturating_sub(agent.stake, amount),
                                    agent.score)
         IN IF agent.stake < amount THEN Err("InsufficientStake", st)
            ELSE IF updated_agent.stake = 0
            THEN Ok(0, [st EXCEPT !.agents =
                            [a \in DOMAIN st.agents \ {sender} |->
                                 st.agents[a]]])
            ELSE Ok(0, [st EXCEPT !.agents = MapSet(@, sender, updated_agent)])

\* Mutant: no balance check; the subtraction saturates at 0.
withdraw_stake_no_check(st, sender, amount) ==
    IF MapGet(st.agents, sender) = None THEN Err("NotRegistered", st)
    ELSE LET agent == st.agents[sender]
             updated_agent == Agent(saturating_sub(agent.stake, amount),
                                    agent.score)
         IN Ok(0, [st EXCEPT !.agents = MapSet(@, sender, updated_agent)])

withdraw_stake(st, sender, amount) ==
    IF MapGet(st.agents, sender) = None THEN Err("NotRegistered", st)
    ELSE LET agent == st.agents[sender]
             updated_agent == Agent(saturating_sub(agent.stake, amount),
                                    agent.score)
         IN IF agent.stake < amount THEN Err("InsufficientStake", st)
            ELSE Ok(0, [st EXCEPT !.agents = MapSet(@, sender, updated_agent)])

update_score(st, address, delta) ==
    IF MapGet(st.agents, address) = None THEN Err("NotRegistered", st)
    ELSE LET agent == st.agents[address]
             updated_agent == Agent(agent.stake,
                                    saturating_add(agent.score, delta))
         IN Ok(0, [st EXCEPT !.agents = MapSet(@, address, updated_agent)])

\* Mutant: wrapping instead of saturating multiply.
get_weight_wrapping(st, address) ==
    IF MapGet(st.agents, address) = None THEN Err("NotRegistered", st)
    ELSE LET agent == st.agents[address]
         IN Ok((agent.stake * agent.score) % (MaxU64 + 1), st)

\* Mutant: a missing agent reads as the default (weight 0).
get_weight_default(st, address) ==
    LET agent == unwrap_or(MapGet(st.agents, address), Agent(0, DefaultScore))
    IN Ok(saturating_mul(agent.stake, agent.score), st)

get_weight(st, address) ==
    IF MapGet(st.agents, address) = None THEN Err("NotRegistered", st)
    ELSE LET agent == st.agents[address]
         IN Ok(saturating_mul(agent.stake, agent.score), st)

\* ------------------------------------------------------------ BeliefModule
\* Mutant: the question is checked before the value.
create_belief_question_first(st, question, initial_value) ==
    IF question = "" THEN Err("EmptyQuestion", st)
    ELSE IF initial_value > SCALE THEN Err("ValueOutOfRange", st)
    ELSE LET current_id == unwrap_or(st.next_belief_id, 1)
             belief == Belief(current_id, question, initial_value, 0)
         IN IF overflow_checks /\ add_overflows(current_id, 1)
            THEN Err("Panic", st)
            ELSE Ok(current_id,
                    [st EXCEPT
                        !.beliefs = MapSet(@, current_id, belief),
                        !.submission_counts = MapSet(@, current_id, 0),
                        !.next_belief_id = Some(wrapping_add(current_id, 1))])

create_belief(st, question, initial_value) ==
    IF initial_value > SCALE THEN Err("ValueOutOfRange", st)
    ELSE IF question = "" THEN Err("EmptyQuestion", st)
    ELSE LET current_id == unwrap_or(st.next_belief_id, 1)
             belief == Belief(current_id, question, initial_value, 0)
         IN IF overflow_checks /\ add_overflows(current_id, 1)
            THEN Err("Panic", st)
            ELSE Ok(current_id,
                    [st EXCEPT
                        !.beliefs = MapSet(@, current_id, belief),
                        !.submission_counts = MapSet(@, current_id, 0),
                        !.next_belief_id = Some(wrapping_add(current_id, 1))])

\* Mutant: the contributions are multiplied in u64 (saturating), not u128.
new_aggregate_narrow(belief, value, weight) ==
    LET old_total_weight == belief.total_weight
        new_total_weight == saturating_add(old_total_weight, weight)
        old_contribution == saturating_mul(belief.aggregate, old_total_weight)
        new_contribution == saturating_mul(value, weight)
        total_contribution == old_contribution + new_contribution
    IN IF new_total_weight > 0
       THEN as_u64(total_contribution \div new_total_weight)
       ELSE value

\* Mutant: the old aggregate is weighted by the new total weight.
new_aggregate_new_weight(belief, value, weight) ==
    LET old_total_weight == belief.total_weight
        new_total_weight == saturating_add(old_total_weight, weight)
        old_contribution == belief.aggregate * new_total_weight
        new_contribution == value * weight
        total_contribution == old_contribution + new_contribution
    IN IF new_total_weight > 0
       THEN as_u64(total_contribution \div new_total_weight)
       ELSE value

\* Mutant: the midpoint of the old aggregate and the value, whatever the
\* weights.
new_aggregate_midpoint(belief, value, weight) ==
    LET old_total_weight == belief.total_weight
        new_total_weight == saturating_add(old_total_weight, weight)
    IN IF new_total_weight > 0
       THEN as_u64((belief.aggregate + value) \div 2)
       ELSE value

\* Mutant: with no weight at all the old aggregate is kept.
new_aggregate_keeps_old(belief, value, weight) ==
    LET old_total_weight == belief.total_weight
        new_total_weight == saturating_add(old_total_weight, weight)
        old_contribution == belief.aggregate * old_total_weight
        new_contribution == value * weight
        total_contribution == old_contribution + new_contribution
    IN IF new_total_weight > 0
       THEN as_u64(total_contribution \div new_total_weight)
       ELSE belief.aggregate

\* Mutant: the weighted value is added to the old aggregate as it is.
new_aggregate_increment(belief, value, weight) ==
    LET old_total_weight == belief.total_weight
        new_total_weight == saturating_add(old_total_weight, weight)
        new_contribution == value * weight
    IN IF new_total_weight > 0
       THEN as_u64(belief.aggregate + new_contribution \div new_total_weight)
       ELSE value

\* The weighted average of update_aggregate (lines 233-248).
new_aggregate(belief, value, weight) ==
    LET old_total_weight == belief.total_weight
        new_total_weight == saturating_add(old_total_weight, weight)
        old_contribution == belief.aggregate * old_total_weight
        new_contribution == value * weight
        total_contribution == old_contribution + new_contribution
    IN IF new_total_weight > 0
       THEN as_u64(total_contribution \div new_total_weight)
       ELSE value

\* Mutant: an unknown belief is read as a default record and stored.
update_aggregate_default(st, belief_id, value, weight) ==
    IF value > SCALE THEN Err("ValueOutOfRange", st)
    ELSE LET belief == unwrap_or(MapGet(st.beliefs, belief_id),
                                 Belief(belief_id, "", 0, 0))
             updated == [belief EXCEPT
                            !.aggregate = new_aggregate(belief, value, weight),
                            !.total_weight = saturating_add(@, weight)]
             count == unwrap_or(MapGet(st.submission_counts, belief_id), 0)
         IN Ok(updated.aggregate,
               [st EXCEPT !.beliefs = MapSet(@, belief_id, updated),
                          !.submission_counts =
                              MapSet(@, belief_id, wrapping_add(count, 1))])

\* Mutant: the weight applied grows with the number of earlier submissions.
update_aggregate_count_weighted(st, belief_id, value, weight) ==
    IF value > SCALE THEN Err("ValueOutOfRange", st)
    ELSE IF MapGet(st.beliefs, belief_id) = None THEN Err("NotFound", st)
    ELSE LET belief == st.beliefs[belief_id]
             count == unwrap_or(MapGet(st.submission_counts, belief_id), 0)
             applied == saturating_mul(weight, count + 1)
             updated == [belief EXCEPT
                            !.aggregate = new_aggregate(belief, value, applied),
                            !.total_weight = saturating_add(@, applied)]
         IN Ok(updated.aggregate,
               [st EXCEPT !.beliefs = MapSet(@, belief_id, updated),
                          !.submission_counts =
                              MapSet(@, belief_id, wrapping_add(count, 1))])

\* Mutant: the total weight wraps instead of saturating.
update_aggregate_wrapping_weight(st, belief_id, value, weight) ==
    IF value > SCALE THEN Err("ValueOutOfRange", st)
    ELSE IF MapGet(st.beliefs, belief_id) = None THEN Err("NotFound", st)
    ELSE LET belief == st.beliefs[belief_id]
             updated == [belief EXCEPT
                            !.aggregate = new_aggregate(belief, value, weight),
                            !.total_weight = wrapping_add(@, weight)]
             count == unwrap_or(MapGet(st.submission_counts, belief_id), 0)
         IN Ok(updated.aggregate,
               [st EXCEPT !.beliefs = MapSet(@, belief_id, updated),
                          !.submission_counts =
                              MapSet(@, belief_id, wrapping_add(count, 1))])

\* Mutant: the submission count is not incremented.
update_aggregate_no_count(st, belief_id, value, weight) ==
    IF value > SCALE THEN Err("ValueOutOfRange", st)
    ELSE IF MapGet(st.beliefs, belief_id) = None THEN Err("NotFound", st)
    ELSE LET belief == st.beliefs[belief_id]
             updated == [belief EXCEPT
                            !.aggregate = new_aggregate(belief, value, weight),
                            !.total_weight = saturating_add(@, weight)]
         IN Ok(updated.aggregate,
               [st EXCEPT !.beliefs = MapSet(@, belief_id, updated)])

\* Mutant: the submission count of every belief is incremented.
update_aggregate_counts_all(st, belief_id, value, weight) ==
    IF value > SCALE THEN Err("ValueOutOfRange", st)
    ELSE IF MapGet(st.beliefs, belief_id) = None THEN Err("NotFound", st)
    ELSE LET belief == st.beliefs[belief_id]
             updated == [belief EXCEPT
                            !.aggregate = new_aggregate(belief, value, weight),
                            !.total_weight = saturating_add(@, weight)]
         IN Ok(updated.aggregate,
               [st EXCEPT !.beliefs = MapSet(@, belief_id, updated),
                          !.submission_counts =
                              [id \in DOMAIN @ |-> wrapping_add(@[id], 1)]])

update_aggregate(st, belief_id, value, weight) ==
    IF value > SCALE THEN Err("ValueOutOfRange", st)
    ELSE IF MapGet(st.beliefs, belief_id) = None THEN Err("NotFound", st)
    ELSE LET belief == st.beliefs[belief_id]
             updated == [belief EXCEPT
                            !.aggregate = new_aggregate(belief, value, weight),
                            !.total_weight = saturating_add(@, weight)]
             count == unwrap_or(MapGet(st.submission_counts, belief_id), 0)
         IN IF overflow_checks /\ add_overflows(count, 1)
            THEN Err("Panic", st)
            ELSE Ok(updated.aggregate,
                    [st EXCEPT !.beliefs = MapSet(@, belief_id, updated),
                               !.submission_counts =
                                   MapSet(@, belief_id,
                                          wrapping_add(count, 1))])

\* -------------------------------------------------------- SubmissionModule
\* Mutant: the bonus is divided by the distance alone.
score_delta_unshifted(value, aggregate) ==
    LET distance == IF value > aggregate THEN value - aggregate
                    ELSE aggregate - value
    IN IF distance = 0 THEN MaxBonus
       ELSE (MaxBonus * SCALE) \div distance

\* The bonus of lines 200-213.  100u64.saturating_mul(SCALE) is the constant
\* 1000000, far below u64::MAX, so it never saturates: the product is kept
\* exact here, where MaxU64 is a reduced width.  saturating_div on u64 is the
\* plain quotient.
score_delta(value, aggregate) ==
    LET distance == IF value > aggregate THEN value - aggregate
                    ELSE aggregate - value
    IN IF distance = 0 THEN MaxBonus
       ELSE (MaxBonus * SCALE) \div (SCALE + distance)

\* Mutant: the record is pushed before the aggregate is updated.
submit_belief_push_first(st, sender, belief_id, value) ==
    IF value > SCALE THEN Err("ValueOutOfRange", st)
    ELSE LET w == get_weight(st, sender)
         IN IF w.status # "Ok" THEN Err(w.status, st)
            ELSE IF w.ret = 0 THEN Err("ZeroWeight", st)
            ELSE LET submission == Submission(sender, belief_id, value, w.ret)
                     pushed == [st EXCEPT !.submissions =
                                              Append(@, submission)]
                     u == update_aggregate(pushed, belief_id, value, w.ret)
                 IN IF u.status # "Ok" THEN Err(u.status, pushed)
                    ELSE Ok(0, u.st)

\* Mutant: the record is never pushed.
submit_belief_no_push(st, sender, belief_id, value) ==
    IF value > SCALE THEN Err("ValueOutOfRange", st)
    ELSE LET w == get_weight(st, sender)
         IN IF w.status # "Ok" THEN Err(w.status, st)
            ELSE IF w.ret = 0 THEN Err("ZeroWeight", st)
            ELSE LET u == update_aggregate(st, belief_id, value, w.ret)
                 IN IF u.status # "Ok" THEN Err(u.status, st)
                    ELSE Ok(0, u.st)

\* Mutant: the record carries the stake, not the weight that was applied.
submit_belief_logs_stake(st, sender, belief_id, value) ==
    IF value > SCALE THEN Err("ValueOutOfRange", st)
    ELSE LET w == get_weight(st, sender)
         IN IF w.status # "Ok" THEN Err(w.status, st)
            ELSE IF w.ret = 0 THEN Err("ZeroWeight", st)
            ELSE LET u == update_aggregate(st, belief_id, value, w.ret)
                     submission == Submission(sender, belief_id, value,
                                              st.agents[sender].stake)
                 IN IF u.status # "Ok" THEN Err(u.status, st)
                    ELSE Ok(0, [u.st EXCEPT !.submissions =
                                    Append(@, submission)])

\* Mutant: the log holds only the latest record.
submit_belief_replaces(st, sender, belief_id, value) ==
    IF value > SCALE THEN Err("ValueOutOfRange", st)
    ELSE LET w == get_weight(st, sender)
         IN IF w.status # "Ok" THEN Err(w.status, st)
            ELSE IF w.ret = 0 THEN Err("ZeroWeight", st)
            ELSE LET u == update_aggregate(st, belief_id, value, w.ret)
                     submission == Submission(sender, belief_id, value, w.ret)
                 IN IF u.status # "Ok" THEN Err(u.status, st)
                    ELSE Ok(0, [u.st EXCEPT !.submissions = <<submission>>])

\* Mutant: the score bonus is applied to the caller's record.
submit_belief_applies_score(st, sender, belief_id, value) ==
    IF value > SCALE THEN Err("ValueOutOfRange", st)
    ELSE LET w == get_weight(st, sender)
         IN IF w.status # "Ok" THEN Err(w.status, st)
            ELSE IF w.ret = 0 THEN Err("ZeroWeight", st)
            ELSE LET u == update_aggregate(st, belief_id, value, w.ret)
                     _score_delta == score_delta(value, u.ret)
                     scored == update_score(u.st, sender, _score_delta)
                     submission == Submission(sender, belief_id, value, w.ret)
                 IN IF u.status # "Ok" THEN Err(u.status, st)
                    ELSE Ok(0, [scored.st EXCEPT !.submissions =
                                    Append(@, submission)])

\* Mutant: an agent may submit to a belief only once.
submit_belief_once(st, sender, belief_id, value) ==
    IF value > SCALE THEN Err("ValueOutOfRange", st)
    ELSE LET w == get_weight(st, sender)
         IN IF w.status # "Ok" THEN Err(w.status, st)
            ELSE IF w.ret = 0 THEN Err("ZeroWeight", st)
            ELSE IF \E i \in DOMAIN st.submissions :
                        /\ st.submissions[i].agent = sender
                        /\ st.submissions[i].belief_id = belief_id
            THEN Err("AlreadySubmitted", st)
            ELSE LET u == update_aggregate(st, belief_id, value, w.ret)
                     submission == Submission(sender, belief_id, value, w.ret)
                 IN IF u.status # "Ok" THEN Err(u.status, st)
                    ELSE Ok(0, [u.st EXCEPT !.submissions =
                                    Append(@, submission)])

\* Mutant: a value above SCALE is clamped for the aggregate and recorded as
\* submitted.
submit_belief_clamps(st, sender, belief_id, value) ==
    LET w == get_weight(st, sender)
    IN IF w.status # "Ok" THEN Err(w.status, st)
       ELSE IF w.ret = 0 THEN Err("ZeroWeight", st)
       ELSE LET u == update_aggregate(st, belief_id, Min(value, SCALE), w.ret)
                submission == Submission(sender, belief_id, value, w.ret)
            IN IF u.status # "Ok" THEN Err(u.status, st)
               ELSE Ok(0, [u.st EXCEPT !.submissions = Append(@, submission)])

\* Mutant: the belief is looked up before the caller's weight.
submit_belief_belief_first(st, sender, belief_id, value) ==
    IF value > SCALE THEN Err("ValueOutOfRange", st)
    ELSE IF MapGet(st.beliefs, belief_id) = None THEN Err("NotFound", st)
    ELSE LET w == get_weight(st, sender)
         IN IF w.status # "Ok" THEN Err(w.status, st)
            ELSE IF w.ret = 0 THEN Err("ZeroWeight", st)
            ELSE LET u == update_aggregate(st, belief_id, value, w.ret)
                     submission == Submission(sender, belief_id, value, w.ret)
                 IN IF u.status # "Ok" THEN Err(u.status, st)
                    ELSE Ok(0, [u.st EXCEPT !.submissions =
                                    Append(@, submission)])

\* Mutant: no zero-weight check.
submit_belief_no_zero_check(st, sender, belief_id, value) ==
    IF value > SCALE THEN Err("ValueOutOfRange", st)
    ELSE LET w == get_weight(st, sender)
         IN IF w.status # "Ok" THEN Err(w.status, st)
            ELSE LET u == update_aggregate(st, belief_id, value, w.ret)
                 IN IF u.status # "Ok" THEN Err(u.status, st)
                    ELSE LET submission ==
                                 Submission(sender, belief_id, value, w.ret)
                         IN Ok(0, [u.st EXCEPT !.submissions =
                                       Append(@, submission)])

submit_belief(st, sender, belief_id, value) ==
    IF value > SCALE THEN Err("ValueOutOfRange", st)
    ELSE LET w == get_weight(st, sender)
         IN IF w.status # "Ok" THEN Err(w.status, st)
            ELSE IF w.ret = 0 THEN Err("ZeroWeight", st)
            ELSE LET u == update_aggregate(st, belief_id, value, w.ret)
                     _score_delta == score_delta(value, u.ret)
                     submission == Submission(sender, belief_id, value, w.ret)
                 IN IF u.status # "Ok" THEN Err(u.status, st)
                    ELSE Ok(0, [u.st EXCEPT !.submissions =
                                    Append(@, submission)])

\* ----------------------------------------------------------------- genesis
RECURSIVE agent_genesis(_, _)
agent_genesis(st, initial_agents) ==
    IF initial_agents = <<>> THEN st
    ELSE LET address == Head(initial_agents)[1]
             agent == Head(initial_agents)[2]
         IN agent_genesis([st EXCEPT !.agents = MapSet(@, address, agent)],
                          Tail(initial_agents))

RECURSIVE belief_genesis(_, _)
belief_genesis(st, initial_beliefs) ==
    IF initial_beliefs = <<>> THEN st
    ELSE LET belief == Head(initial_beliefs)
             next_id == unwrap_or(st.next_belief_id, 1)
             stored == [st EXCEPT
                           !.beliefs = MapSet(@, belief.id, belief),
                           !.submission_counts = MapSet(@, belief.id, 0)]
         IN belief_genesis(
                IF belief.id >= next_id
                THEN [stored EXCEPT !.next_belief_id =
                                        Some(wrapping_add(belief.id, 1))]
                ELSE stored,
                Tail(initial_beliefs))

RECURSIVE submission_genesis(_, _)
submission_genesis(st, initial_submissions) ==
    IF initial_submissions = <<>> THEN st
    ELSE submission_genesis(
             [st EXCEPT !.submissions = Append(@, Head(initial_submissions))],
             Tail(initial_submissions))

\* Storage before genesis: every map empty, the id counter unset.
EmptyState == [agents |-> EmptyMap, beliefs |-> EmptyMap,
               next_belief_id |-> None, submission_counts |-> EmptyMap,
               submissions |-> <<>>]

\* Genesis panics, and the chain never starts, when a build with overflow
\* checks computes belief.id + 1 for the largest id.
genesis_panics(config) ==
    /\ overflow_checks
    /\ \E i \in DOMAIN config.initial_beliefs :
           add_overflows(config.initial_beliefs[i].id, 1)

genesis(config) ==
    submission_genesis(
        belief_genesis(agent_genesis(EmptyState, config.initial_agents),
                       config.initial_beliefs),
        config.initial_submissions)

Config(initial_agents, initial_beliefs) ==
    [initial_agents |-> initial_agents, initial_beliefs |-> initial_beliefs,
     initial_submissions |-> <<>>]

\* The genesis configurations the model starts from.
GenesisConfigs ==
    { Config(<<>>, <<>>),
      Config(<<<<"a1", Agent(0, DefaultScore)>>>>,
             <<Belief(1, "q", 5000, 0)>>),
      Config(<<<<"a1", Agent(1000, 0)>>, <<"a2", Agent(1000, DefaultScore)>>>>,
             <<Belief(2, "q", SCALE, 0), Belief(1, "q", 0, 0)>>),
      Config(<<<<"a1", Agent(MaxU64, DefaultScore)>>>>,
             <<Belief(1, "q", 5000, 0)>>) }

\* ----------------------------------------------------------------- actions
\* `result` is the outcome the host observes for the call in progress: the
\* operation, its arguments, its status and its return value.  Calls are
\* serialized: one is dispatched when none is in progress, and Return hands
\* control back to the host.  nops counts the calls that succeeded in changing
\* the storage.
Result(op, who, id, value, amount, question, out) ==
    [op |-> op, who |-> who, id |-> id, value |-> value, amount |-> amount,
     question |-> question, status |-> out.status, ret |-> out.ret]

Idle == [op |-> "idle", who |-> "", id |-> 0, value |-> 0, amount |-> 0,
         question |-> "", status |-> "Ok", ret |-> 0]

Store(st) ==
    /\ agents' = st.agents
    /\ beliefs' = st.beliefs
    /\ next_belief_id' = st.next_belief_id
    /\ submission_counts' = st.submission_counts
    /\ submissions' = st.submissions

\* A call is dispatched; one that changes the storage needs budget.
Dispatch(out) ==
    /\ result = Idle
    /\ out.st # State => nops < MaxOps
    /\ Store(out.st)
    /\ nops' = IF out.st # State THEN nops + 1 ELSE nops
    /\ UNCHANGED overflow_checks

\* The exact numerator of the update fits the model's integers.
NumeratorFits(belief, value, weight) ==
    LET room == MaxNumerator - value * weight
    IN IF belief.total_weight = 0 THEN TRUE
       ELSE belief.aggregate <= room \div belief.total_weight

UpdateFits(belief_id, value, weight) ==
    IF value <= SCALE /\ belief_id \in DOMAIN beliefs
    THEN NumeratorFits(beliefs[belief_id], value, weight)
    ELSE TRUE

\* The chain starts from one of `configs`, built with one of `profiles`.
InitFrom(configs, profiles) ==
    /\ overflow_checks \in profiles
    /\ \E config \in configs :
           /\ ~genesis_panics(config)
           /\ LET st == genesis(config)
              IN /\ agents = st.agents
                 /\ beliefs = st.beliefs
                 /\ next_belief_id = st.next_belief_id
                 /\ submission_counts = st.submission_counts
                 /\ submissions = st.submissions
           /\ result = Idle
           /\ nops = 0

\* Every id and counter of GenesisConfigs stays far below the maximum within
\* MaxOps calls, so no plain add overflows under Spec and both build profiles
\* behave alike there (AddsNeverOverflow); Spec runs the release profile.
\* SpecBelief starts from the extreme ids, under both profiles.
Init == InitFrom(GenesisConfigs, {FALSE})

RegisterAgent(sender, initial_stake) ==
    LET out == register_agent(State, sender, initial_stake)
    IN /\ Dispatch(out)
       /\ result' = Result("register", sender, 0, 0, initial_stake, "", out)

AddStake(sender, amount) ==
    LET out == add_stake(State, sender, amount)
    IN /\ Dispatch(out)
       /\ result' = Result("add_stake", sender, 0, 0, amount, "", out)

WithdrawStake(sender, amount) ==
    LET out == withdraw_stake(State, sender, amount)
    IN /\ Dispatch(out)
       /\ result' = Result("withdraw_stake", sender, 0, 0, amount, "", out)

UpdateScore(address, delta) ==
    LET out == update_score(State, address, delta)
    IN /\ Dispatch(out)
       /\ result' = Result("update_score", address, 0, 0, delta, "", out)

GetWeight(address) ==
    LET out == get_weight(State, address)
    IN /\ Dispatch(out)
       /\ result' = Result("weight", address, 0, 0, 0, "", out)

NoOp ==
    /\ Dispatch(Ok(0, State))
    /\ result' = Result("noop", "", 0, 0, 0, "", Ok(0, State))

CreateBelief(question, initial_value) ==
    LET out == create_belief(State, question, initial_value)
    IN /\ Dispatch(out)
       /\ result' = Result("create_belief", "", 0, initial_value, 0,
                           question, out)

UpdateAggregate(belief_id, value, weight) ==
    /\ UpdateFits(belief_id, value, weight)
    /\ LET out == update_aggregate(State, belief_id, value, weight)
       IN /\ Dispatch(out)
          /\ result' = Result("update_aggregate", "", belief_id, value,
                              weight, "", out)

SubmitBelief(sender, belief_id, value) ==
    /\ LET w == get_weight(State, sender)
       IN w.status = "Ok" => UpdateFits(belief_id, value, w.ret)
    /\ LET out == submit_belief(State, sender, belief_id, value)
       IN /\ Dispatch(out)
          /\ result' = Result("submit", sender, belief_id, value, 0, "", out)

Return ==
    /\ result # Idle
    /\ result' = Idle
    /\ UNCHANGED <<agents, beliefs, next_belief_id, submission_counts,
                   submissions, nops, overflow_checks>>

Next ==
    \/ \E sender \in Address, initial_stake \in Stakes :
           RegisterAgent(sender, initial_stake)
    \/ \E sender \in Address, amount \in Amounts : AddStake(sender, amount)
    \/ \E sender \in Address :
           \E amount \in Amounts \cup {unwrap_or(MapGet(agents, sender),
                                                 Agent(0, 0)).stake} :
               WithdrawStake(sender, amount)
    \/ \E address \in Address, delta \in Deltas : UpdateScore(address, delta)
    \/ \E address \in Address : GetWeight(address)
    \/ NoOp
    \/ \E question \in Question, initial_value \in InitialValues :
           CreateBelief(question, initial_value)
    \/ \E belief_id \in BeliefIds, value \in Values, weight \in Weights :
           UpdateAggregate(belief_id, value, weight)
    \/ \E sender \in Address, belief_id \in BeliefIds, value \in Values :
           SubmitBelief(sender, belief_id, value)
    \/ Return

Spec == Init /\ [][Next]_vars

AddsNeverOverflow ==
    /\ ~add_overflows(unwrap_or(next_belief_id, 1), 1)
    /\ \A id \in DOMAIN beliefs : ~add_overflows(id, 1)
    /\ \A id \in DOMAIN submission_counts :
           ~add_overflows(submission_counts[id], 1)

\* ------------------------------------------------ BeliefModule on its own
\* Genesis configurations with ids at both ends of the id range, supplied in
\* any order.
BeliefGenesisConfigs ==
    { Config(<<>>, <<>>),
      Config(<<>>, <<Belief(2, "q", SCALE, 0), Belief(1, "q", 0, 0)>>),
      Config(<<>>, <<Belief(0, "q", 5000, 0), Belief(MaxU64, "q", 0, 0)>>),
      Config(<<>>, <<Belief(MaxU64 - 1, "q", 5000, 0),
                     Belief(0, "q", 0, 0)>>) }

WideBeliefIds == {0, 1, MaxU64}

InitBelief == InitFrom(BeliefGenesisConfigs, BOOLEAN)

NextBelief ==
    \/ \E question \in Question, initial_value \in InitialValues :
           CreateBelief(question, initial_value)
    \/ \E belief_id \in WideBeliefIds, value \in Values, weight \in Weights :
           UpdateAggregate(belief_id, value, weight)
    \/ Return

SpecBelief == InitBelief /\ [][NextBelief]_vars

\* ------------------------------------------- the dispatched call surface
\* Mutant: update_score is a dispatched call as well.
NextCallsWithUpdateScore ==
    \/ \E sender \in Address, initial_stake \in Stakes :
           RegisterAgent(sender, initial_stake)
    \/ \E sender \in Address, amount \in Amounts : AddStake(sender, amount)
    \/ \E sender \in Address :
           \E amount \in Amounts \cup {unwrap_or(MapGet(agents, sender),
                                                 Agent(0, 0)).stake} :
               WithdrawStake(sender, amount)
    \/ \E address \in Address, delta \in Deltas : UpdateScore(address, delta)
    \/ NoOp
    \/ \E sender \in Address, belief_id \in BeliefIds, value \in Values :
           SubmitBelief(sender, belief_id, value)
    \/ Return

\* Mutant: create_belief is a dispatched call as well.
NextCallsWithCreateBelief ==
    \/ \E sender \in Address, initial_stake \in Stakes :
           RegisterAgent(sender, initial_stake)
    \/ \E sender \in Address, amount \in Amounts : AddStake(sender, amount)
    \/ \E sender \in Address :
           \E amount \in Amounts \cup {unwrap_or(MapGet(agents, sender),
                                                 Agent(0, 0)).stake} :
               WithdrawStake(sender, amount)
    \/ NoOp
    \/ \E question \in Question, initial_value \in InitialValues :
           CreateBelief(question, initial_value)
    \/ \E sender \in Address, belief_id \in BeliefIds, value \in Values :
           SubmitBelief(sender, belief_id, value)
    \/ Return

\* The call messages a transaction can carry: the variants of the three
\* CallMessage enums, each routed by its module's `call`.
NextCalls ==
    \/ \E sender \in Address, initial_stake \in Stakes :
           RegisterAgent(sender, initial_stake)
    \/ \E sender \in Address, amount \in Amounts : AddStake(sender, amount)
    \/ \E sender \in Address :
           \E amount \in Amounts \cup {unwrap_or(MapGet(agents, sender),
                                                 Agent(0, 0)).stake} :
               WithdrawStake(sender, amount)
    \/ NoOp
    \/ \E sender \in Address, belief_id \in BeliefIds, value \in Values :
           SubmitBelief(sender, belief_id, value)
    \/ Return

SpecCalls == Init /\ [][NextCalls]_vars

\* ------------------------------------------------- the score bonus alone
\* Submitted values (all <= SCALE, as submit_belief admits) and aggregates
\* returned by update_aggregate, up to four times SCALE.
ScoreValues == {k * 500 : k \in 0 .. 20} \cup {1, SCALE - 1}

ScoreAggregates == {k * 500 : k \in 0 .. 80} \cup {1, SCALE - 1, SCALE + 1}

\* The bonus computation of submit_belief, applied to a value and the
\* aggregate update_aggregate returned; `amount` carries the aggregate.
ScoreDelta(value, aggregate) ==
    LET out == Ok(score_delta(value, aggregate), State)
    IN /\ Dispatch(out)
       /\ result' = Result("score_delta", "", 0, value, aggregate, "", out)

NextScore ==
    \/ \E value \in ScoreValues, aggregate \in ScoreAggregates :
           ScoreDelta(value, aggregate)
    \/ Return

SpecScore == Init /\ [][NextScore]_vars

\* --------------------------------------------- the weighted average alone
\* One belief, stored by genesis with an aggregate and an accumulated weight
\* drawn from small sets.
AverageGenesisConfigs ==
    { Config(<<>>, <<Belief(1, "q", aggregate, total_weight)>>) :
          aggregate \in {0, 2500, 5000, SCALE},
          total_weight \in {0, 1, 5, 1000} }

InitAverage == InitFrom(AverageGenesisConfigs, {FALSE})

NextAverage ==
    \/ \E belief_id \in BeliefIds, value \in Values,
          weight \in Weights \cup {1} :
           UpdateAggregate(belief_id, value, weight)
    \/ Return

SpecAverage == InitAverage /\ [][NextAverage]_vars

\* ------------------------------------------------------------------ claims
Storage == <<agents, beliefs, next_belief_id, submission_counts, submissions>>

\* C1: every stored belief has 0 <= aggregate <= SCALE in every reachable
\* state, for valid (<= SCALE) initial aggregates and submitted values and
\* any weights, including where total_weight saturates.
C1_AggregateInRange ==
    \A id \in DOMAIN beliefs :
        beliefs[id].aggregate >= 0 /\ beliefs[id].aggregate <= SCALE

\* C3: update_aggregate on an existing belief with value <= SCALE succeeds;
\* with W1 = min(W0 + weight, u64 max) > 0 it stores and returns
\* floor((A0*W0 + value*weight) / W1) and stores total_weight = W1.
C3_WeightedAverage ==
    [][(result'.op = "update_aggregate" /\ result'.id \in DOMAIN beliefs
            /\ result'.value <= SCALE)
       => LET id == result'.id
              A0 == beliefs[id].aggregate
              W0 == beliefs[id].total_weight
              W1 == Min(W0 + result'.amount, MaxU64)
              expected == (A0 * W0 + result'.value * result'.amount) \div W1
          IN /\ result'.status = "Ok"
             /\ beliefs'[id].total_weight = W1
             /\ W1 > 0 => /\ beliefs'[id].aggregate = expected
                          /\ result'.ret = expected]_vars

\* The example of C3: (5000, 0) --(10000, w 10)--> (10000, 10)
\* --(0, w 10)--> (5000, 20).
C3_Witness ==
    /\ result.op = "update_aggregate" /\ result.status = "Ok"
    /\ result.value = 0 /\ result.amount = 10 /\ result.ret = 5000
    /\ beliefs[result.id].aggregate = 5000
    /\ beliefs[result.id].total_weight = 20

\* C4: on a belief whose total_weight is 0, update_aggregate with weight > 0
\* and value <= SCALE makes the aggregate exactly value, whatever the
\* aggregate was before.
C4_FirstSubmission ==
    [][(result'.op = "update_aggregate" /\ result'.id \in DOMAIN beliefs
            /\ result'.value <= SCALE /\ result'.amount > 0
            /\ beliefs[result'.id].total_weight = 0)
       => /\ result'.status = "Ok"
          /\ result'.ret = result'.value
          /\ beliefs'[result'.id].aggregate = result'.value]_vars

\* The example of C4: a belief at 5000 with no weight becomes exactly 8000.
C4_Witness ==
    /\ result.op = "update_aggregate" /\ result.status = "Ok"
    /\ result.value = 8000 /\ result.amount = 10
    /\ beliefs[result.id].aggregate = 8000
    /\ beliefs[result.id].total_weight = 10
    /\ submission_counts[result.id] = 1

\* r is min(a * b, MaxU64), stated by division so that no product overflows.
IsSaturatedProduct(r, a, b) ==
    IF a = 0 \/ b = 0 THEN r = 0
    ELSE /\ r <= MaxU64
         /\ r < MaxU64 => (r \div a = b /\ r % a = 0)
         /\ r = MaxU64 => b >= (MaxU64 + a - 1) \div a

\* C5: weight(address) of a registered agent is min(stake * score, u64 max).
C5_WeightSaturates ==
    (result.op = "weight" /\ result.who \in DOMAIN agents)
    => /\ result.status = "Ok"
       /\ IsSaturatedProduct(result.ret, agents[result.who].stake,
                             agents[result.who].score)

\* A product above the maximum: stake 1500, score 100.
C5_Witness ==
    /\ result.op = "weight" /\ result.status = "Ok"
    /\ result.who \in DOMAIN agents
    /\ agents[result.who] = Agent(1500, DefaultScore)
    /\ result.ret = MaxU64

\* C6: a failing submit leaves the whole storage as it was; a successful
\* one both updates the targeted belief and appends one record.
C6_SubmitAtomic ==
    [][result'.op = "submit"
       => IF result'.status = "Ok"
          THEN /\ Len(submissions') = Len(submissions) + 1
               /\ submission_counts'[result'.id] =
                      submission_counts[result'.id] + 1
               /\ beliefs'[result'.id].total_weight =
                      Min(beliefs[result'.id].total_weight
                              + submissions'[Len(submissions')].weight, MaxU64)
          ELSE /\ result'.status \in {"ValueOutOfRange", "NotRegistered",
                                      "ZeroWeight", "NotFound"}
               /\ UNCHANGED Storage]_vars

\* A submit that failed at the last check, after the weight was read.
C6_Witness ==
    /\ result.op = "submit" /\ result.status = "NotFound"
    /\ result.who \in DOMAIN agents
    /\ result.id \notin DOMAIN beliefs

\* C7: the log grows by exactly 1 on a successful submit and by 0 on a failed
\* one and on every other operation.
C7_LogLength ==
    [][Len(submissions') =
           IF result'.op = "submit" /\ result'.status = "Ok"
           THEN Len(submissions) + 1
           ELSE Len(submissions)]_vars

C7_Witness ==
    /\ result.op = "submit" /\ result.status = "Ok"
    /\ Len(submissions) = 2

\* C8: submit by a caller with no Agent record and value <= SCALE fails with
\* NotRegistered, for any belief id, and leaves the storage unchanged.
C8_UnregisteredSubmit ==
    [][(result'.op = "submit" /\ result'.who \notin DOMAIN agents
            /\ result'.value <= SCALE)
       => /\ result'.status = "NotRegistered"
          /\ UNCHANGED Storage
          /\ result'.who \notin DOMAIN agents']_vars

C8_Witness ==
    /\ result.op = "submit" /\ result.status = "NotRegistered"
    /\ result.who \notin DOMAIN agents
    /\ result.id \in DOMAIN beliefs

\* C9: submit by a registered caller whose weight is 0, with value <= SCALE,
\* fails with ZeroWeight and leaves the storage unchanged; an agent whose
\* stake is 0 stays registered, and its stake leaves 0 only by its own
\* successful add_stake.
C9_ZeroWeightSubmit ==
    [][/\ (result'.op = "submit" /\ result'.who \in DOMAIN agents
               /\ result'.value <= SCALE
               /\ (agents[result'.who].stake = 0
                       \/ agents[result'.who].score = 0))
          => /\ result'.status = "ZeroWeight"
             /\ UNCHANGED Storage
       /\ \A a \in DOMAIN agents :
              agents[a].stake = 0
              => /\ a \in DOMAIN agents'
                 /\ agents'[a].stake > 0
                    => /\ result'.op = "add_stake" /\ result'.who = a
                       /\ result'.status = "Ok"]_vars

\* An agent that withdrew its whole stake and then submitted.
C9_Witness ==
    /\ result.op = "submit" /\ result.status = "ZeroWeight"
    /\ result.who = "a2"
    /\ agents["a2"] = Agent(0, DefaultScore)

\* C10: register for an address that has an Agent record fails with
\* AlreadyRegistered for every initial_stake, 0 included, and leaves the
\* record (and the rest of the storage) unchanged.
C10_RegisterOnce ==
    [][(result'.op = "register" /\ result'.who \in DOMAIN agents)
       => /\ result'.status = "AlreadyRegistered"
          /\ UNCHANGED Storage]_vars

\* A second register with stake 0, after an add_stake.
C10_Witness ==
    /\ result.op = "register" /\ result.status = "AlreadyRegistered"
    /\ result.amount = 0
    /\ agents[result.who] = Agent(1500, DefaultScore)

\* C11: register on an address with no Agent record creates
\* Agent{stake = initial_stake, score = 100} when initial_stake > 0 and fails
\* with InvalidStake, creating nothing, when initial_stake = 0.
C11_Register ==
    [][(result'.op = "register" /\ result'.who \notin DOMAIN agents)
       => IF result'.amount > 0
          THEN /\ result'.status = "Ok"
               /\ DOMAIN agents' = DOMAIN agents \cup {result'.who}
               /\ agents'[result'.who].stake = result'.amount
               /\ agents'[result'.who].stake >= 1
               /\ agents'[result'.who].score = 100
               /\ \A a \in DOMAIN agents : agents'[a] = agents[a]
          ELSE /\ result'.status = "InvalidStake"
               /\ UNCHANGED Storage]_vars

C11_Witness ==
    /\ result.op = "register" /\ result.status = "Ok"
    /\ result.amount = 1000
    /\ agents[result.who] = [stake |-> 1000, score |-> 100]

\* C12: withdraw_stake on a registered agent fails with InsufficientStake,
\* changing nothing, when amount > stake; otherwise the stake becomes
\* stake - amount (never below 0) and the score stays.
C12_Withdraw ==
    [][(result'.op = "withdraw_stake" /\ result'.who \in DOMAIN agents)
       => IF result'.amount > agents[result'.who].stake
          THEN /\ result'.status = "InsufficientStake"
               /\ UNCHANGED Storage
          ELSE /\ result'.status = "Ok"
               /\ agents'[result'.who].stake =
                      agents[result'.who].stake - result'.amount
               /\ agents'[result'.who].stake >= 0
               /\ agents'[result'.who].score = agents[result'.who].score]_vars

\* The whole stake withdrawn: 1000 - 1000 = 0.
C12_Witness ==
    /\ result.op = "withdraw_stake" /\ result.status = "Ok"
    /\ result.amount = 1000
    /\ agents[result.who].stake = 0

\* C13: add_stake on a registered agent sets the stake to
\* min(stake + amount, u64 max) and leaves the score; the stake never
\* decreases.
C13_AddStake ==
    [][(result'.op = "add_stake" /\ result'.who \in DOMAIN agents)
       => /\ result'.status = "Ok"
          /\ agents'[result'.who].stake =
                 Min(agents[result'.who].stake + result'.amount, MaxU64)
          /\ agents'[result'.who].stake >= agents[result'.who].stake
          /\ agents'[result'.who].score = agents[result'.who].score]_vars

\* The sum clamps: a2 never holds more than 1500 before this call.
C13_Witness ==
    /\ result.op = "add_stake" /\ result.status = "Ok"
    /\ result.who = "a2" /\ result.amount = MaxU64
    /\ agents["a2"].stake = MaxU64

\* C14: add_stake, withdraw_stake, update_score and weight for an address
\* with no Agent record fail with NotRegistered and change nothing; an
\* address gets a record only by its own successful register.
C14_NotRegistered ==
    [][/\ (result'.op \in {"add_stake", "withdraw_stake", "update_score",
                           "weight"}
               /\ result'.who \notin DOMAIN agents)
          => /\ result'.status = "NotRegistered"
             /\ UNCHANGED Storage
       /\ \A a \in DOMAIN agents' \ DOMAIN agents :
              /\ result'.op = "register" /\ result'.who = a
              /\ result'.status = "Ok"]_vars

C14_Witness ==
    /\ result.op = "update_score" /\ result.status = "NotRegistered"
    /\ result.who \notin DOMAIN agents

\* C15: the ids returned by successful create_belief calls are strictly
\* increasing (the id counter, which is the next id to return, ends above
\* the id just returned), the first id on an empty store is 1, and no
\* returned id belongs to an existing belief.
C15_IdsStrictlyIncreasing ==
    [][(result'.op = "create_belief" /\ result'.status = "Ok")
       => /\ result'.ret \notin DOMAIN beliefs
          /\ unwrap_or(next_belief_id', 1) > result'.ret
          /\ (next_belief_id = None /\ DOMAIN beliefs = {})
             => result'.ret = 1]_vars

\* C16: in every reachable state, directly after genesis included,
\* next_belief_id (1 when unset) is strictly greater than every stored id.
C16_CounterAboveIds ==
    \A id \in DOMAIN beliefs : unwrap_or(next_belief_id, 1) > id

\* C17: a successful create_belief stores Belief{id = returned id, question,
\* aggregate = initial_value, total_weight = 0} with submission count 0 and
\* advances next_belief_id by exactly 1; a create_belief that fails for an
\* empty question or a value above SCALE stores nothing and leaves the
\* counter.
C17_CreateBelief ==
    [][result'.op = "create_belief"
       => IF result'.status = "Ok"
          THEN /\ result'.ret \in DOMAIN beliefs'
               /\ beliefs'[result'.ret] =
                      [id |-> result'.ret, question |-> result'.question,
                       aggregate |-> result'.value, total_weight |-> 0]
               /\ submission_counts'[result'.ret] = 0
               /\ unwrap_or(next_belief_id', 1) =
                      unwrap_or(next_belief_id, 1) + 1
          ELSE (result'.question = "" \/ result'.value > SCALE)
               => UNCHANGED Storage]_vars

\* C18: update_aggregate fails with ValueOutOfRange for value > SCALE and
\* with NotFound for an id that is not stored (and a valid value); neither
\* changes a belief or a count, nor creates a record for the unknown id.
C18_UpdateFails ==
    [][(result'.op = "update_aggregate"
            /\ (result'.id \notin DOMAIN beliefs \/ result'.value > SCALE))
       => /\ result'.status =
                 IF result'.value > SCALE THEN "ValueOutOfRange"
                 ELSE "NotFound"
          /\ beliefs' = beliefs
          /\ submission_counts' = submission_counts
          /\ UNCHANGED Storage]_vars

C18_Witness ==
    /\ result.op = "update_aggregate" /\ result.status = "NotFound"
    /\ result.value <= SCALE
    /\ result.id \notin DOMAIN beliefs
    /\ beliefs # EmptyMap

\* C19: over every operation each belief's total_weight never decreases; a
\* successful update_aggregate or submit sets it to
\* min(old + weight, u64 max), and nothing else changes it.
C19_TotalWeightMonotone ==
    [][\A id \in DOMAIN beliefs :
           /\ id \in DOMAIN beliefs'
           /\ beliefs'[id].total_weight >= beliefs[id].total_weight
           /\ beliefs'[id].total_weight # beliefs[id].total_weight
              => /\ result'.op \in {"update_aggregate", "submit"}
                 /\ result'.status = "Ok" /\ result'.id = id
           /\ (result'.op = "update_aggregate" /\ result'.status = "Ok"
                   /\ result'.id = id)
              => beliefs'[id].total_weight =
                     Min(beliefs[id].total_weight + result'.amount, MaxU64)
           /\ (result'.op = "submit" /\ result'.status = "Ok"
                   /\ result'.id = id)
              => beliefs'[id].total_weight =
                     Min(beliefs[id].total_weight
                             + submissions'[Len(submissions')].weight,
                         MaxU64)]_vars

\* C20: a successful submit appends exactly one record, at the index the log
\* length had, holding the caller, the belief id and the value submitted and
\* the caller's weight min(stake * score, u64 max), which is the weight the
\* belief's total_weight grew by.
C20_SubmissionRecord ==
    [][(result'.op = "submit" /\ result'.status = "Ok")
       => LET n == Len(submissions)
              rec == submissions'[n + 1]
          IN /\ Len(submissions') = n + 1
             /\ \A i \in 1 .. n : submissions'[i] = submissions[i]
             /\ rec.agent = result'.who
             /\ rec.belief_id = result'.id
             /\ rec.value = result'.value
             /\ IsSaturatedProduct(rec.weight, agents[result'.who].stake,
                                   agents[result'.who].score)
             /\ beliefs'[result'.id].total_weight =
                    Min(beliefs[result'.id].total_weight + rec.weight,
                        MaxU64)]_vars

\* A second record, by an agent whose weight 1000 * 100 is not its stake.
C20_Witness ==
    /\ result.op = "submit" /\ result.status = "Ok"
    /\ Len(submissions) = 2
    /\ submissions[2].agent = result.who
    /\ submissions[2].weight = 100000
    /\ agents[result.who].stake = 1000

\* C21: the submission log is append-only: over every step the log before is
\* a prefix of the log after, so a record is never modified, reordered or
\* removed, also when the submitting agent's stake changes afterwards.
C21_LogAppendOnly ==
    [][/\ Len(submissions') >= Len(submissions)
       /\ \A i \in 1 .. Len(submissions) : submissions'[i] = submissions[i]]_vars

\* The agent of the first record changed its stake after submitting: the
\* record still carries the weight 1000 * 100 of the time of the submit.
C21_Witness ==
    /\ result.op \in {"add_stake", "withdraw_stake"} /\ result.status = "Ok"
    /\ Len(submissions) = 1
    /\ submissions[1].agent = result.who
    /\ submissions[1].weight = 100000
    /\ agents[result.who].stake # 1000

C24_AgentsKept ==
    [][\A a \in DOMAIN agents : a \in DOMAIN agents']_vars

\* An agent created by register has withdrawn its whole stake and is still
\* registered.
C24_Witness ==
    /\ result.op = "withdraw_stake" /\ result.status = "Ok"
    /\ result.who = "a1" /\ result.amount = 1000
    /\ DOMAIN agents = {"a1"}
    /\ agents["a1"] = [stake |-> 0, score |-> 100]
    /\ beliefs = EmptyMap

\* C25: beliefs are never deleted and are mutated only by update_aggregate:
\* a stored id stays stored, its id and question never change, and its
\* aggregate and total_weight change only in a successful update_aggregate
\* or submit on that id.
C25_BeliefsMutatedByUpdateOnly ==
    [][\A id \in DOMAIN beliefs :
           /\ id \in DOMAIN beliefs'
           /\ beliefs'[id].id = beliefs[id].id
           /\ beliefs'[id].question = beliefs[id].question
           /\ (beliefs'[id].aggregate # beliefs[id].aggregate
                   \/ beliefs'[id].total_weight # beliefs[id].total_weight)
              => /\ result'.op \in {"update_aggregate", "submit"}
                 /\ result'.status = "Ok"
                 /\ result'.id = id]_vars

\* C26: ownership frame: the agent operations change no belief, count, id
\* counter or log entry; create_belief and update_aggregate change no agent
\* and no log entry; a successful submit changes, among the beliefs, only
\* the aggregate, total_weight and count of its target.
C26_OwnershipFrame ==
    [][/\ result'.op \in {"register", "add_stake", "withdraw_stake",
                          "update_score"}
          => UNCHANGED <<beliefs, submission_counts, next_belief_id,
                         submissions>>
       /\ result'.op \in {"create_belief", "update_aggregate"}
          => UNCHANGED <<agents, submissions>>
       /\ (result'.op = "submit" /\ result'.status = "Ok")
          => /\ next_belief_id' = next_belief_id
             /\ DOMAIN beliefs' = DOMAIN beliefs
             /\ DOMAIN submission_counts' = DOMAIN submission_counts
             /\ beliefs'[result'.id].id = beliefs[result'.id].id
             /\ beliefs'[result'.id].question = beliefs[result'.id].question
             /\ \A id \in DOMAIN beliefs \ {result'.id} :
                    /\ beliefs'[id] = beliefs[id]
                    /\ submission_counts'[id] = submission_counts[id]]_vars

\* A submit on belief 1 while belief 2 is stored with no submission.
C26_Witness ==
    /\ result.op = "submit" /\ result.status = "Ok" /\ result.id = 1
    /\ DOMAIN beliefs = {1, 2}
    /\ submission_counts[1] = 1 /\ submission_counts[2] = 0
    /\ beliefs[2].total_weight = 0

\* C27: submit succeeds if and only if value <= SCALE, the caller is
\* registered with weight > 0 (stake > 0 and score > 0) and the belief
\* exists; a failed submit changes nothing a later submit reads, so it never
\* blocks or alters a later one.
C27_SubmitSucceedsIff ==
    [][result'.op = "submit"
       => /\ result'.status = "Ok"
             <=> /\ result'.value <= SCALE
                 /\ result'.who \in DOMAIN agents
                 /\ agents[result'.who].stake > 0
                 /\ agents[result'.who].score > 0
                 /\ result'.id \in DOMAIN beliefs
          /\ result'.status # "Ok"
             => /\ agents' = agents
                /\ beliefs' = beliefs
                /\ submission_counts' = submission_counts
                /\ submissions' = submissions]_vars

\* A submit has failed (a1 has weight 0) after one that succeeded, in a
\* state where a2 can still submit to the same belief.
C27_Witness ==
    /\ result.op = "submit" /\ result.status = "ZeroWeight"
    /\ result.who = "a1"
    /\ result.id \in DOMAIN beliefs
    /\ Len(submissions) = 1
    /\ submissions[1].agent = "a2"
    /\ agents["a2"].stake > 0 /\ agents["a2"].score > 0

\* C28: every record of the log appended by submit has its value in
\* [0, SCALE].
C28_LoggedValuesInRange ==
    \A i \in 1 .. Len(submissions) :
        submissions[i].value >= 0 /\ submissions[i].value <= SCALE

\* The largest value, SCALE itself, has been recorded.
C28_Witness ==
    /\ result.op = "submit" /\ result.status = "Ok"
    /\ result.value = SCALE
    /\ submissions[Len(submissions)].value = SCALE

Distance(value, aggregate) ==
    IF value > aggregate THEN value - aggregate
    ELSE aggregate - value

Growth == {1, 10, 1000, 100000}

\* C30: for a fixed old aggregate A0, value and weight, the shift
\* |new_aggregate - A0| made by update_aggregate is not larger at a larger
\* prior total_weight W0 (W0 + weight within u64), and (where W0 + weight > 0)
\* it never exceeds ceil(|value - A0| * weight / (W0 + weight)).
C30_InfluenceShrinks ==
    [][(result'.op = "update_aggregate" /\ result'.status = "Ok")
       => LET id == result'.id
              A0 == beliefs[id].aggregate
              W0 == beliefs[id].total_weight
              value == result'.value
              weight == result'.amount
              shift == Distance(beliefs'[id].aggregate, A0)
          IN W0 + weight <= MaxU64
             => /\ W0 + weight > 0
                   => shift * (W0 + weight)
                          < Distance(value, A0) * weight + (W0 + weight)
                /\ \A k \in Growth :
                       W0 + k + weight <= MaxU64
                       => Distance(new_aggregate(
                                       Belief(id, "q", A0, W0 + k),
                                       value, weight), A0) <= shift]_vars

\* 8000 with weight 10 on (5000, 1000): floor(5080000 / 1010) = 5029, a
\* shift of 29 where the same submission on (5000, 0) shifts by 3000.
C30_Witness ==
    /\ result.op = "update_aggregate" /\ result.status = "Ok"
    /\ result.value = 8000 /\ result.amount = 10
    /\ beliefs[result.id].aggregate = 5029
    /\ beliefs[result.id].total_weight = 1010

\* Counter values put in place of the stored one in C31.
OtherCounts == {0, 5, 1000}

\* C31: a successful update_aggregate increments the target's submission
\* counter by exactly 1, a failed one leaves every counter; the counter does
\* not feed back: from a state that differs only in the counter the update
\* returns and stores the same aggregate and total_weight.
C31_CounterOnlyCounts ==
    [][result'.op = "update_aggregate"
       => IF result'.status = "Ok"
          THEN /\ submission_counts'[result'.id] =
                      submission_counts[result'.id] + 1
               /\ \A c \in OtherCounts :
                      LET other == [State EXCEPT !.submission_counts =
                                        MapSet(@, result'.id, c)]
                          out == update_aggregate(other, result'.id,
                                                  result'.value,
                                                  result'.amount)
                      IN /\ out.status = "Ok"
                         /\ out.ret = result'.ret
                         /\ out.st.beliefs[result'.id] = beliefs'[result'.id]
          ELSE submission_counts' = submission_counts]_vars

\* The second update of a belief that already holds weight.
C31_Witness ==
    /\ result.op = "update_aggregate" /\ result.status = "Ok"
    /\ result.amount = 10
    /\ submission_counts[result.id] = 2
    /\ beliefs[result.id].total_weight = 20

\* C32: submit applies its checks in a fixed order: value > SCALE gives
\* ValueOutOfRange whoever calls and whatever the id; then an unregistered
\* caller gives NotRegistered; then weight 0 gives ZeroWeight; only then an
\* unknown id gives NotFound.
C32_SubmitCheckOrder ==
    [][result'.op = "submit"
       => result'.status =
              IF result'.value > SCALE THEN "ValueOutOfRange"
              ELSE IF result'.who \notin DOMAIN agents THEN "NotRegistered"
              ELSE IF agents[result'.who].stake = 0
                          \/ agents[result'.who].score = 0
                   THEN "ZeroWeight"
              ELSE IF result'.id \notin DOMAIN beliefs THEN "NotFound"
              ELSE "Ok"]_vars

\* A caller of weight 0 submits to an unknown belief: ZeroWeight, not
\* NotFound.
C32_Witness ==
    /\ result.op = "submit" /\ result.status = "ZeroWeight"
    /\ result.who \in DOMAIN agents
    /\ result.id \notin DOMAIN beliefs
    /\ result.value <= SCALE

\* C33 as stated: create_belief with an empty question fails with
\* EmptyQuestion for every initial_value, initial_value > SCALE included.
C33_EmptyQuestionFirst ==
    [][(result'.op = "create_belief" /\ result'.question = "")
       => result'.status = "EmptyQuestion"]_vars

\* C33 amended: create_belief with an empty question fails with
\* ValueOutOfRange when initial_value > SCALE and with EmptyQuestion
\* otherwise (the value is checked first); nothing is stored either way.
C33_ValueCheckedFirst ==
    [][(result'.op = "create_belief" /\ result'.question = "")
       => /\ result'.status = IF result'.value > SCALE THEN "ValueOutOfRange"
                              ELSE "EmptyQuestion"
          /\ UNCHANGED Storage]_vars

\* An empty question together with a value above SCALE.
C33_Witness ==
    /\ result.op = "create_belief" /\ result.question = ""
    /\ result.value > SCALE
    /\ result.status = "ValueOutOfRange"

\* C34: update_aggregate with weight 0 on a belief whose total_weight is 0
\* stores and returns value and leaves total_weight 0; a successful update
\* ends with total_weight 0 only when the old total_weight and the weight
\* were both 0, and never does through submit.
C34_ZeroWeightBranch ==
    [][/\ (result'.op = "update_aggregate" /\ result'.status = "Ok")
          => LET W0 == beliefs[result'.id].total_weight
                 updated == beliefs'[result'.id]
             IN /\ (W0 = 0 /\ result'.amount = 0)
                   => /\ updated.aggregate = result'.value
                      /\ result'.ret = result'.value
                      /\ updated.total_weight = 0
                /\ updated.total_weight = 0
                   => (W0 = 0 /\ result'.amount = 0)
       /\ (result'.op = "submit" /\ result'.status = "Ok")
          => /\ beliefs'[result'.id].total_weight > 0
             /\ submissions'[Len(submissions')].weight > 0]_vars

\* A belief at 5000 with no weight takes the value 8000 at weight 0.
C34_Witness ==
    /\ result.op = "update_aggregate" /\ result.status = "Ok"
    /\ result.value = 8000 /\ result.amount = 0 /\ result.ret = 8000
    /\ beliefs[result.id].aggregate = 8000
    /\ beliefs[result.id].total_weight = 0

\* The sum of the weights, and the number, of the log entries of a belief.
RECURSIVE LoggedWeight(_, _)
LoggedWeight(log, id) ==
    IF log = <<>> THEN 0
    ELSE (IF Head(log).belief_id = id THEN Head(log).weight ELSE 0)
             + LoggedWeight(Tail(log), id)

RECURSIVE LoggedCount(_, _)
LoggedCount(log, id) ==
    IF log = <<>> THEN 0
    ELSE (IF Head(log).belief_id = id THEN 1 ELSE 0)
             + LoggedCount(Tail(log), id)

RECURSIVE SumOver(_, _)
SumOver(f, S) ==
    IF S = {} THEN 0
    ELSE LET x == CHOOSE y \in S : TRUE
         IN f[x] + SumOver(f, S \ {x})

\* C35: with beliefs starting at total_weight 0, an empty genesis log and
\* updates only through submit, each belief's total_weight is the sum of the
\* weights of its log entries clamped at the u64 maximum, every logged
\* weight is > 0, and total_weight is 0 exactly when the belief has no
\* entry.
C35_TotalWeightIsLoggedWeight ==
    /\ \A i \in 1 .. Len(submissions) : submissions[i].weight > 0
    /\ \A id \in DOMAIN beliefs :
           /\ beliefs[id].total_weight =
                  Min(LoggedWeight(submissions, id), MaxU64)
           /\ beliefs[id].total_weight = 0
              <=> LoggedCount(submissions, id) = 0

\* Two submissions of the maximal weight: the sum is clamped.
C35_Witness ==
    /\ Len(submissions) = 2
    /\ submissions[1].weight = MaxU64 /\ submissions[2].weight = MaxU64
    /\ submissions[1].belief_id = submissions[2].belief_id
    /\ beliefs[submissions[1].belief_id].total_weight = MaxU64

\* C36: with an empty genesis log and updates only through submit, each
\* belief's submission counter is the number of log entries of that belief,
\* and the log length is the sum of all counters.
C36_CountersMatchLog ==
    /\ \A id \in DOMAIN submission_counts :
           submission_counts[id] = LoggedCount(submissions, id)
    /\ Len(submissions) = SumOver(submission_counts, DOMAIN submission_counts)

\* One entry for each of two beliefs.
C36_Witness ==
    /\ Len(submissions) = 2
    /\ DOMAIN submission_counts = {1, 2}
    /\ submission_counts[1] = 1 /\ submission_counts[2] = 1
    /\ submissions[1].belief_id # submissions[2].belief_id

\* C37: an update_aggregate with value <= SCALE and W0 + weight within u64
\* stores an aggregate between the old aggregate A0 and the value:
\* min(A0, value) <= new <= max(A0, value); value = A0 leaves it unchanged.
C37_AggregateBetween ==
    [][(result'.op = "update_aggregate" /\ result'.status = "Ok"
            /\ beliefs[result'.id].total_weight + result'.amount <= MaxU64)
       => LET A0 == beliefs[result'.id].aggregate
              value == result'.value
              new == beliefs'[result'.id].aggregate
          IN /\ new >= Min(A0, value)
             /\ new <= (IF A0 > value THEN A0 ELSE value)
             /\ result'.ret = new
             /\ value = A0 => new = A0]_vars

\* SCALE submitted to a belief that is at SCALE with weight 1000.
C37_Witness ==
    /\ result.op = "update_aggregate" /\ result.status = "Ok"
    /\ result.value = SCALE /\ result.amount = 10 /\ result.ret = SCALE
    /\ beliefs[result.id].aggregate = SCALE
    /\ beliefs[result.id].total_weight = 1010
    /\ submission_counts[result.id] = 1

\* C38: register, add_stake and withdraw_stake dispatched for a caller touch
\* only the caller's Agent record: every other address keeps its record, or
\* its absence, whether the call succeeds or fails.
C38_OnlyOwnRecord ==
    [][result'.op \in {"register", "add_stake", "withdraw_stake"}
       => /\ \A a \in DOMAIN agents \ {result'.who} :
                 a \in DOMAIN agents' /\ agents'[a] = agents[a]
          /\ DOMAIN agents' \subseteq DOMAIN agents \cup {result'.who}]_vars

\* a1 has added to its stake while a2 is registered.
C38_Witness ==
    /\ result.op = "add_stake" /\ result.status = "Ok" /\ result.who = "a1"
    /\ agents["a1"].stake = 1500
    /\ agents["a2"] = [stake |-> 1000, score |-> 100]

\* C39 as stated: under the dispatched call messages create_belief is never
\* run, NoOp changes nothing, the stored belief ids, their questions and
\* next_belief_id stay as genesis left them, and SubmitBelief for an id that
\* is not stored always fails with NotFound.
C39_BeliefsFixedNotFound ==
    [][/\ result'.op # "create_belief"
       /\ result'.op = "noop" => UNCHANGED Storage
       /\ DOMAIN beliefs' = DOMAIN beliefs
       /\ \A id \in DOMAIN beliefs :
              beliefs'[id].question = beliefs[id].question
       /\ next_belief_id' = next_belief_id
       /\ (result'.op = "submit" /\ result'.id \notin DOMAIN beliefs)
          => result'.status = "NotFound"]_vars

\* C39 amended: as above, but SubmitBelief for an id that is not stored
\* always fails, with NotFound when value <= SCALE and the caller is
\* registered with weight > 0, and with the error of the earlier check
\* otherwise.
C39_BeliefsFixed ==
    [][/\ result'.op # "create_belief"
       /\ result'.op = "noop" => UNCHANGED Storage
       /\ DOMAIN beliefs' = DOMAIN beliefs
       /\ \A id \in DOMAIN beliefs :
              beliefs'[id].question = beliefs[id].question
       /\ next_belief_id' = next_belief_id
       /\ (result'.op = "submit" /\ result'.id \notin DOMAIN beliefs)
          => /\ result'.status \in {"ValueOutOfRange", "NotRegistered",
                                    "ZeroWeight", "NotFound"}
             /\ result'.status = "NotFound"
                <=> /\ result'.value <= SCALE
                    /\ result'.who \in DOMAIN agents
                    /\ agents[result'.who].stake > 0
                    /\ agents[result'.who].score > 0
             /\ UNCHANGED Storage]_vars

\* After a submit that succeeded, a2 submits to an id genesis did not
\* supply.
C39_Witness ==
    /\ result.op = "submit" /\ result.status = "NotFound"
    /\ result.who = "a2"
    /\ result.id \notin DOMAIN beliefs
    /\ beliefs # EmptyMap
    /\ Len(submissions) = 1

====
